---- MODULE Spec2Model ----
(***************************************************************************)
(* Negotiation and validation engine of the embedded static file server:  *)
(* quality values, the encoding catalog, the Accept-Encoding selector,    *)
(* the If-None-Match precondition and the response composer              *)
(* (static_handle) over the embedded asset store.                         *)
(*                                                                         *)
(* Text is modelled as a sequence of one-character strings, so that       *)
(* splitting, trimming, prefix tests and formatting are computed the way  *)
(* the code computes them.  Option<T> is modelled as a sequence of length *)
(* 0 (None) or 1 (Some), Result<T, E> likewise (Err = <<>>).               *)
(***************************************************************************)
EXTENDS Integers, Sequences, FiniteSets, TLC

VARIABLES store, req, resp, call, ret

vars == <<store, req, resp, call, ret>>

None == <<>>

Some(x) == <<x>>

IsSome(o) == Len(o) = 1

Unwrap(o) == o[1]

(***************************************************************************)
(* Text helpers (std::str)                                                 *)
(***************************************************************************)
\* str::trim on the alphabet of the model: the only whitespace is the space
RECURSIVE TrimStart(_)
TrimStart(s) ==
    IF s # <<>> /\ Head(s) = " " THEN TrimStart(Tail(s)) ELSE s

RECURSIVE TrimEnd(_)
TrimEnd(s) ==
    IF s # <<>> /\ s[Len(s)] = " " THEN TrimEnd(SubSeq(s, 1, Len(s) - 1)) ELSE s

Trim(s) == TrimEnd(TrimStart(s))

\* str::starts_with
StartsWith(s, p) == Len(s) >= Len(p) /\ SubSeq(s, 1, Len(p)) = p

\* str::trim_end_matches('0')
RECURSIVE TrimEndZeros(_)
TrimEndZeros(s) ==
    IF s # <<>> /\ s[Len(s)] = "0" THEN TrimEndZeros(SubSeq(s, 1, Len(s) - 1)) ELSE s

\* the position of the last occurrence of character c in s, 0 when absent
RECURSIVE LastIndexOf(_, _)
LastIndexOf(s, c) ==
    IF s = <<>> THEN 0
    ELSE IF s[Len(s)] = c THEN Len(s)
    ELSE LastIndexOf(SubSeq(s, 1, Len(s) - 1), c)

\* the position of the first occurrence of character c in s, 0 when absent
RECURSIVE FirstIndexOf(_, _, _)
FirstIndexOf(s, c, i) ==
    IF i > Len(s) THEN 0
    ELSE IF s[i] = c THEN i
    ELSE FirstIndexOf(s, c, i + 1)

\* s.rsplitn(2, ';').map(trim): <<after the last ';', before it>>, or <<s>>
RSplitN2(s) ==
    LET i == LastIndexOf(s, ";") IN
    IF i = 0 THEN <<Trim(s)>>
    ELSE <<Trim(SubSeq(s, i + 1, Len(s))), Trim(SubSeq(s, 1, i - 1))>>

DigitChars == <<"0", "1", "2", "3", "4", "5", "6", "7", "8", "9">>

DigitChar(d) == DigitChars[d + 1]

IsDigit(c) == \E d \in 0..9 : DigitChars[d + 1] = c

DigitVal(c) == CHOOSE d \in 0..9 : DigitChars[d + 1] = c

\* format!("{:03}", x) for x in 0..=999 (wider numbers need no padding)
Format03(x) ==
    IF x >= 1000
    THEN <<DigitChar(x \div 1000), DigitChar((x \div 100) % 10),
           DigitChar((x \div 10) % 10), DigitChar(x % 10)>>
    ELSE <<DigitChar(x \div 100), DigitChar((x \div 10) % 10), DigitChar(x % 10)>>

(***************************************************************************)
(* Encoding catalog (encoding.rs)                                          *)
(***************************************************************************)
Chunked == [variant |-> "Chunked", ext |-> <<>>]

Brotli == [variant |-> "Brotli", ext |-> <<>>]

Gzip == [variant |-> "Gzip", ext |-> <<>>]

Deflate == [variant |-> "Deflate", ext |-> <<>>]

Compress == [variant |-> "Compress", ext |-> <<>>]

Identity == [variant |-> "Identity", ext |-> <<>>]

Trailers == [variant |-> "Trailers", ext |-> <<>>]

Zstd == [variant |-> "Zstd", ext |-> <<>>]

Ext(s) == [variant |-> "Ext", ext |-> s]

TokChunked == <<"c", "h", "u", "n", "k", "e", "d">>

TokBr == <<"b", "r">>

TokGzip == <<"g", "z", "i", "p">>

TokDeflate == <<"d", "e", "f", "l", "a", "t", "e">>

TokCompress == <<"c", "o", "m", "p", "r", "e", "s", "s">>

TokIdentity == <<"i", "d", "e", "n", "t", "i", "t", "y">>

TokTrailers == <<"t", "r", "a", "i", "l", "e", "r", "s">>

TokZstd == <<"z", "s", "t", "d">>

\* impl fmt::Display for Encoding
EncodingToString(e) ==
    CASE e.variant = "Chunked" -> TokChunked
      [] e.variant = "Brotli" -> TokBr
      [] e.variant = "Gzip" -> TokGzip
      [] e.variant = "Deflate" -> TokDeflate
      [] e.variant = "Compress" -> TokCompress
      [] e.variant = "Identity" -> TokIdentity
      [] e.variant = "Trailers" -> TokTrailers
      [] e.variant = "Zstd" -> TokZstd
      [] OTHER -> e.ext

\* the match with the arms of "deflate" and "gzip" exchanged
EncodingFromStrSwapped(s) ==
    CASE s = TokChunked -> Some(Chunked)
      [] s = TokBr -> Some(Brotli)
      [] s = TokDeflate -> Some(Gzip)
      [] s = TokGzip -> Some(Deflate)
      [] s = TokCompress -> Some(Compress)
      [] s = TokIdentity -> Some(Identity)
      [] s = TokTrailers -> Some(Trailers)
      [] s = TokZstd -> Some(Zstd)
      [] OTHER -> Some(Ext(s))

\* impl str::FromStr for Encoding: never an Err
EncodingFromStr(s) ==
    CASE s = TokChunked -> Some(Chunked)
      [] s = TokBr -> Some(Brotli)
      [] s = TokDeflate -> Some(Deflate)
      [] s = TokGzip -> Some(Gzip)
      [] s = TokCompress -> Some(Compress)
      [] s = TokIdentity -> Some(Identity)
      [] s = TokTrailers -> Some(Trailers)
      [] s = TokZstd -> Some(Zstd)
      [] OTHER -> Some(Ext(s))

(***************************************************************************)
(* f32 (quality.rs: q_part.parse::<f32>() and (f * 1000f32) as u16)        *)
(*                                                                         *)
(* A decimal text is kept as the exact fraction num/den; the two          *)
(* roundings of the code (text -> f32, and the f32 product) are computed  *)
(* bit by bit on the 24-bit significand, round-to-nearest-even.           *)
(* Exponent forms and inf/nan are outside the alphabet of the model.      *)
(***************************************************************************)
RECURSIVE DigitsValue(_, _)
DigitsValue(s, acc) ==
    IF s = <<>> THEN acc ELSE DigitsValue(Tail(s), acc * 10 + DigitVal(Head(s)))

AllDigits(s) == \A i \in 1..Len(s) : IsDigit(s[i])

\* <f32 as FromStr>::from_str on sign, digits and one optional '.':
\* Some([neg, num, den]) with the value (-1)^neg * num/den, None for Err
ParseDecimal(s) ==
    LET neg == s # <<>> /\ Head(s) = "-"
        body == IF s # <<>> /\ Head(s) \in {"-", "+"} THEN Tail(s) ELSE s
        dot == FirstIndexOf(body, ".", 1)
        ip == IF dot = 0 THEN body ELSE SubSeq(body, 1, dot - 1)
        fp == IF dot = 0 THEN <<>> ELSE SubSeq(body, dot + 1, Len(body))
    IN  IF AllDigits(ip) /\ AllDigits(fp) /\ Len(ip) + Len(fp) >= 1
        THEN Some([neg |-> neg, num |-> DigitsValue(ip \o fp, 0), den |-> 10 ^ Len(fp)])
        ELSE None

\* (0f32..=1f32).contains(&q_value); -0.0 is contained
InUnitRange(d) == IF d.neg THEN d.num = 0 ELSE d.num <= d.den

\* the least k with den <= num * 2^k, for 0 < num <= den
RECURSIVE NormShift(_, _, _)
NormShift(num, den, k) ==
    IF num >= den THEN k ELSE NormShift(2 * num, den, k + 1)

\* the next `bits` bits of r/den after the binary point: <<significand, remainder>>
RECURSIVE LongDivide(_, _, _, _)
LongDivide(m, r, den, bits) ==
    IF bits = 0 THEN <<m, r>>
    ELSE IF 2 * r >= den THEN LongDivide(2 * m + 1, 2 * r - den, den, bits - 1)
    ELSE LongDivide(2 * m, 2 * r, den, bits - 1)

\* round-to-nearest-even of n / 2^t
RoundShift(n, t) ==
    LET q == n \div (2 ^ t)
        r == n % (2 ^ t)
        half == 2 ^ (t - 1)
    IN  IF r > half \/ (r = half /\ q % 2 = 1) THEN q + 1 ELSE q

F32SignificandBits == 24

\* the f32 nearest to num/den (0 < num <= den) as <<m, e>>: the value m * 2^(-e)
F32Of(num, den) ==
    LET k == NormShift(num, den, 0)
        d == LongDivide(1, num * (2 ^ k) - den, den, F32SignificandBits - 1)
        m == d[1]
        r == d[2]
        up == 2 * r > den \/ (2 * r = den /\ m % 2 = 1)
    IN  <<IF up THEN m + 1 ELSE m, (F32SignificandBits - 1) + k>>

\* from_f32: Quality((f * 1000f32) as u16) for the f32 nearest to num/den
FromF32(d) ==
    IF d.num = 0 THEN 0
    ELSE LET f == F32Of(d.num, d.den)
             n == f[1] * 125
             s == f[2] - 3
             t == IF n >= 2 ^ 30 THEN 7 ELSE 6
             nr == RoundShift(n, t)
         IN  IF s - t > 30 THEN 0 ELSE nr \div (2 ^ (s - t))

(***************************************************************************)
(* Quality and QualityValue<Encoding> (util/quality.rs)                    *)
(***************************************************************************)
QualityMax == 1000

\* impl Default for Quality
QualityDefault == QualityMax

\* QualityValue::new
QualityValueNew(value, quality) == [value |-> value, quality |-> quality]

\* impl IntoQuality for u16: Some(Quality), None for the assert's panic
U16IntoQuality(x) == IF x <= QualityMax THEN Some(x) ELSE None

\* impl IntoQuality for f32, on the f32 nearest to the decimal d: Some(Quality),
\* None for the assert's panic
F32IntoQuality(d) == IF InUnitRange(d) THEN Some(FromF32(d)) ELSE None

\* the quality formatted with "{}" in place of "{:03}"
RECURSIVE DecimalDigits(_)
DecimalDigits(x) ==
    IF x < 10 THEN <<DigitChar(x)>> ELSE DecimalDigits(x \div 10) \o <<DigitChar(x % 10)>>

QualityValueToStringUnpadded(qv) ==
    EncodingToString(qv.value) \o
        (CASE qv.quality = 1000 -> <<>>
           [] qv.quality = 0 -> <<";", " ", "q", "=", "0">>
           [] OTHER -> <<";", " ", "q", "=", "0", ".">> \o TrimEndZeros(DecimalDigits(qv.quality)))

\* impl fmt::Display for QualityValue<Encoding>
QualityValueToString(qv) ==
    EncodingToString(qv.value) \o
        (CASE qv.quality = 1000 -> <<>>
           [] qv.quality = 0 -> <<";", " ", "q", "=", "0">>
           [] OTHER -> <<";", " ", "q", "=", "0", ".">> \o TrimEndZeros(Format03(qv.quality)))

QPartMaxLen == 5

\* impl str::FromStr for QualityValue<Encoding>: Some(value) for Ok, None for Err
QualityValueFromStr(s) ==
    LET parts == RSplitN2(s)
        isQ == Len(parts) = 2 /\
               (StartsWith(parts[1], <<"q", "=">>) \/ StartsWith(parts[1], <<"Q", "=">>))
        q_part == SubSeq(parts[1], 3, Len(parts[1]))
        q_value == ParseDecimal(q_part)
    IN  IF Len(parts) = 2 /\ Len(parts[1]) < 2 THEN None
        ELSE IF isQ
        THEN IF Len(q_part) > QPartMaxLen THEN None
             ELSE IF ~IsSome(q_value) THEN None
             ELSE IF ~InUnitRange(Unwrap(q_value)) THEN None
             ELSE LET item == EncodingFromStr(parts[2]) IN
                  IF IsSome(item)
                  THEN Some(QualityValueNew(Unwrap(item), FromF32(Unwrap(q_value))))
                  ELSE None
        ELSE LET item == EncodingFromStr(s) IN
             IF IsSome(item)
             THEN Some(QualityValueNew(Unwrap(item), FromF32([neg |-> FALSE, num |-> 1, den |-> 1])))
             ELSE None

(***************************************************************************)
(* FlatCsv (util/flat_csv.rs): the comma separated backing text            *)
(***************************************************************************)
\* FlatCsv::iter: the segments between commas, each trimmed
RECURSIVE FlatCsvIter(_)
FlatCsvIter(text) ==
    LET i == FirstIndexOf(text, ",", 1) IN
    IF i = 0 THEN <<Trim(text)>>
    ELSE <<Trim(SubSeq(text, 1, i - 1))>> \o FlatCsvIter(SubSeq(text, i + 1, Len(text)))

\* impl FromIterator<HeaderValue> for FlatCsv: the values joined by ", "
RECURSIVE FlatCsvFromIter(_)
FlatCsvFromIter(values) ==
    IF values = <<>> THEN <<>>
    ELSE IF Len(values) = 1 THEN values[1]
    ELSE values[1] \o <<",", " ">> \o FlatCsvFromIter(Tail(values))

(***************************************************************************)
(* Accept-Encoding selector (accept_encoding.rs)                           *)
(***************************************************************************)
\* parsing that stops at the first segment that fails
RECURSIVE ParseEachUntilError(_)
ParseEachUntilError(segs) ==
    IF segs = <<>> THEN <<>>
    ELSE IF ~IsSome(QualityValueFromStr(Head(segs))) THEN <<>>
    ELSE QualityValueFromStr(Head(segs)) \o ParseEachUntilError(Tail(segs))

\* flat_map(|s| s.parse().ok()) over a sequence of segments
RECURSIVE ParseEach(_)
ParseEach(segs) ==
    IF segs = <<>> THEN <<>>
    ELSE QualityValueFromStr(Head(segs)) \o ParseEach(Tail(segs))

\* AcceptEncoding::iter
AcceptEncodingIter(text) == ParseEach(FlatCsvIter(text))

\* an insertion that puts x before the entries of equal quality (unstable sort)
RECURSIVE InsertByQualityUnstable(_, _)
InsertByQualityUnstable(sorted, x) ==
    IF sorted = <<>> THEN <<x>>
    ELSE IF Head(sorted).quality > x.quality
         THEN <<Head(sorted)>> \o InsertByQualityUnstable(Tail(sorted), x)
         ELSE <<x>> \o sorted

\* the place of x in a list sorted by quality descending: after every entry
\* whose quality is not lower (the sort is stable)
RECURSIVE InsertByQuality(_, _)
InsertByQuality(sorted, x) ==
    IF sorted = <<>> THEN <<x>>
    ELSE IF Head(sorted).quality >= x.quality
         THEN <<Head(sorted)>> \o InsertByQuality(Tail(sorted), x)
         ELSE <<x>> \o sorted

\* sort_by_key(|q| Reverse(q.quality())): stable, quality descending
RECURSIVE SortByQualityDesc(_)
SortByQualityDesc(qvs) ==
    IF qvs = <<>> THEN <<>>
    ELSE InsertByQuality(SortByQualityDesc(SubSeq(qvs, 1, Len(qvs) - 1)), qvs[Len(qvs)])

\* AcceptEncoding::choose
Choose(text) ==
    LET quality_values == SortByQualityDesc(AcceptEncodingIter(text)) IN
    IF quality_values # <<>> THEN quality_values[1].value ELSE Identity

\* the loop of choose_by over the sorted server list
RECURSIVE ChooseByLoop(_, _)
ChooseByLoop(choose_values, quality_values) ==
    IF choose_values = <<>> THEN Identity
    ELSE LET v == Head(choose_values)
             hits == {i \in 1..Len(quality_values) : quality_values[i].value = v.value}
         IN  IF hits # {}
             THEN quality_values[CHOOSE i \in hits : \A j \in hits : i <= j].value
             ELSE ChooseByLoop(Tail(choose_values), quality_values)

\* choose_by walking the client's list in the client's order of preference
ChooseByClientOrder(self, accept_encoding) ==
    ChooseByLoop(SortByQualityDesc(AcceptEncodingIter(self)),
                 SortByQualityDesc(AcceptEncodingIter(accept_encoding)))

\* AcceptEncoding::choose_by
ChooseBy(self, accept_encoding) ==
    ChooseByLoop(SortByQualityDesc(AcceptEncodingIter(accept_encoding)),
                 SortByQualityDesc(AcceptEncodingIter(self)))

\* impl FromIterator<QualityValue<Encoding>> for AcceptEncoding
AcceptEncodingFromIter(qvs) ==
    FlatCsvFromIter([i \in 1..Len(qvs) |-> QualityValueToString(qvs[i])])

(***************************************************************************)
(* Content-Encoding header (content_encoding.rs)                           *)
(*                                                                         *)
(* A ContentEncoding is the FlatCsv of one header value, modelled as the  *)
(* text of that value; two of them are equal when the texts are equal.    *)
(***************************************************************************)
\* impl From<Encoding> for ContentEncoding: the header value of the token
ContentEncodingFromEncoding(value) == EncodingToString(value)

\* impl From<HeaderValue> for ContentEncoding
ContentEncodingFromHeaderValue(value) == value

\* Header::encode: the header values extended with the one value of self
ContentEncodingEncode(self) == <<self>>

\* Header::decode: the first of the header values, Err (None) when there is none
ContentEncodingDecode(values) ==
    IF values = <<>> THEN None ELSE Some(ContentEncodingFromHeaderValue(Head(values)))

(***************************************************************************)
(* Entity tags (util/entity.rs, etag.rs, if_none_match.rs)                 *)
(***************************************************************************)
DQ == "\""

\* EntityTag::from_owned: the text must be a double-quoted string, optionally
\* prefixed with W/; Some([weak, opaque]) or None
EntityTagFromOwned(text) ==
    LET n == Len(text)
        start == IF n >= 1 /\ text[1] = DQ THEN 1
                 ELSE IF n >= 4 /\ SubSeq(text, 1, 3) = <<"W", "/", DQ>> THEN 3
                 ELSE 0
        opaque == SubSeq(text, start + 1, n - 1)
    IN  IF n < 2 \/ text[n] # DQ \/ start = 0 THEN None
        ELSE IF \E i \in 1..Len(opaque) : opaque[i] = DQ THEN None
        ELSE Some([weak |-> start = 3, opaque |-> opaque])

\* impl FromStr for ETag
ETagFromStr(src) == EntityTagFromOwned(src)

\* EntityTag::weak_eq: the opaque values are equal, whatever the weak flags
WeakEq(a, b) == a.opaque = b.opaque

\* EntityTagRange decoded from a header value: `*` is Any, all else a tag list
EntityTagRangeDecode(text) ==
    IF text = <<"*">> THEN [any |-> TRUE, tags |-> <<>>]
    ELSE [any |-> FALSE, tags |-> text]

\* EntityTagRange::matches_weak
MatchesWeak(range, etag) ==
    \/ range.any
    \/ LET segs == FlatCsvIter(range.tags) IN
       \E i \in 1..Len(segs) :
           LET t == EntityTagFromOwned(segs[i]) IN
           IsSome(t) /\ WeakEq(Unwrap(t), etag)

\* the header value of an entity tag (impl From<&EntityTag> for HeaderValue)
EntityTagToString(tag) ==
    (IF tag.weak THEN <<"W", "/">> ELSE <<>>) \o <<DQ>> \o tag.opaque \o <<DQ>>

\* precondition_passes without the negation of the match
PreconditionPassesUnnegated(if_none_match, etag) ==
    MatchesWeak(EntityTagRangeDecode(if_none_match), etag)

\* IfNoneMatch::precondition_passes
PreconditionPasses(if_none_match, etag) ==
    ~MatchesWeak(EntityTagRangeDecode(if_none_match), etag)

(***************************************************************************)
(* Asset store (dist/lib.rs)                                               *)
(***************************************************************************)
HexChars == <<"0", "1", "2", "3", "4", "5", "6", "7", "8", "9",
              "a", "b", "c", "d", "e", "f">>

\* hex::ToHex::encode_hex: two lowercase digits per byte
RECURSIVE EncodeHex(_)
EncodeHex(bytes) ==
    IF bytes = <<>> THEN <<>>
    ELSE <<HexChars[(Head(bytes) \div 16) + 1], HexChars[(Head(bytes) % 16) + 1]>>
         \o EncodeHex(Tail(bytes))

\* ETagHeaderValue::create, from the digest of the entry
ETagHeaderValueCreate(digest) ==
    LET value == EncodeHex(digest) IN
    [header |-> <<DQ>> \o value \o <<DQ>>, value |-> value]

\* the tag field of the asset model of the specification: the stored tag text
\* is the quoted lowercase hex digest
ETagQuoted(digest) ==
    LET value == EncodeHex(digest) IN
    [header |-> <<DQ>> \o value \o <<DQ>>, value |-> <<DQ>> \o value \o <<DQ>>]

\* file contents of the embedded tree (bytes)
ContentA == <<1, 2>>

ContentB == <<3>>

ContentC == <<4, 5>>

\* the content digest (blake3_256, shortened): equal contents, equal digests
Blake3(content) ==
    CASE content = ContentA -> <<163, 15>>
      [] content = ContentB -> <<11, 196>>
      [] content = ContentC -> <<7, 42>>
      [] OTHER -> <<0, 0>>

\* the precompressed variants derived at build time
ZstdOf(content) == <<40, 181>> \o content

BrotliOf(content) == <<27>> \o content

FileEntry(name, content, etag) ==
    [kind |-> "File", name |-> name, etag |-> etag, content |-> content,
     zstd_content |-> ZstdOf(content), brotli_content |-> BrotliOf(content)]

DirEntry(name, digest) ==
    [kind |-> "Dir", name |-> name, etag |-> ETagHeaderValueCreate(digest),
     content |-> <<>>, zstd_content |-> <<>>, brotli_content |-> <<>>]

\* the embedded tree Dist, keyed by the relative path (the components between '/')
Dist ==
    LET tree == {
          <<<<"index.html">>, FileEntry("index.html", ContentC, ETagHeaderValueCreate(Blake3(ContentC)))>>,
          <<<<"logo.svg">>, FileEntry("logo.svg", ContentA, ETagQuoted(Blake3(ContentA)))>>,
          <<<<"assets">>, DirEntry("assets", <<201, 1>>)>>,
          <<<<"assets", "index.html">>, FileEntry("index.html", ContentB, ETagQuoted(Blake3(ContentB)))>>,
          <<<<"assets", "copy.svg">>, FileEntry("copy.svg", ContentA, ETagQuoted(Blake3(ContentA)))>>,
          <<<<"assets", "sub">>, DirEntry("sub", <<201, 5>>)>>,
          <<<<"assets", "sub", "index.html">>, FileEntry("index.html", ContentB, ETagQuoted(Blake3(ContentB)))>>,
          <<<<"docs">>, DirEntry("docs", <<201, 2>>)>>,
          <<<<"docs", "logo.svg">>, FileEntry("logo.svg", ContentA, ETagHeaderValueCreate(Blake3(ContentA)))>>,
          <<<<"bad">>, DirEntry("bad", <<201, 3>>)>>,
          <<<<"bad", "index.html">>, DirEntry("index.html", <<201, 4>>)>> }
    IN  [p \in {e[1] : e \in tree} |-> (CHOOSE e \in tree : e[1] = p)[2]]

\* Dist.get(path): the entry at exactly that path
DistGet(dist, path) == IF path \in DOMAIN dist THEN Some(dist[path]) ELSE None

(***************************************************************************)
(* Response composer (bin/server.rs)                                       *)
(***************************************************************************)
\* mime_guess on the request path, application/octet-stream when unknown
ContentType(path) ==
    LET last == path[Len(path)] IN
    CASE last = "index.html" -> "text/html"
      [] last \in {"logo.svg", "copy.svg"} -> "image/svg+xml"
      [] OTHER -> "application/octet-stream"

\* (base_header, status).into_response(): the headers so far and an empty body
StatusResponse(status, content_type, etag) ==
    [status |-> status, content_type |-> content_type, etag |-> etag,
     content_encoding |-> None, accept_encoding |-> None, body |-> <<>>]

\* the response that leaves Content-Encoding out for an uncompressed body
BodyResponseBareIdentity(content_type, etag, encoding, supported, body) ==
    [status |-> 200, content_type |-> content_type, etag |-> etag,
     content_encoding |-> IF encoding = Identity THEN None
                          ELSE Some(EncodingToString(encoding)),
     accept_encoding |-> Some(supported), body |-> body]

\* (base_header, Bytes).into_response(): status 200 with the chosen buffer
BodyResponse(content_type, etag, encoding, supported, body) ==
    [status |-> 200, content_type |-> content_type, etag |-> etag,
     content_encoding |-> Some(EncodingToString(encoding)),
     accept_encoding |-> Some(supported), body |-> body]

\* the server's list: [Zstd 1000, Brotli 800] collected into an AcceptEncoding
SupportedAcceptEncoding ==
    AcceptEncodingFromIter(<<QualityValueNew(Zstd, Unwrap(U16IntoQuality(1000))),
                             QualityValueNew(Brotli, Unwrap(U16IntoQuality(800)))>>)

\* the key of the index lookup for a directory entry: name() is the last
\* component of the directory's path
DirIndexPath(dir) == <<dir.name, "index.html">>

\* ResolveFile answering 403 Forbidden for a directory without index.html
ResolveFileForbidden(dist, entry) ==
    IF entry.kind = "Dir"
    THEN LET index == DistGet(dist, DirIndexPath(entry)) IN
         IF ~IsSome(index) THEN [file |-> None, status |-> 403]
         ELSE IF Unwrap(index).kind # "File" THEN [file |-> None, status |-> 500]
         ELSE [file |-> index, status |-> 200]
    ELSE [file |-> Some(entry), status |-> 200]

\* the match on the looked-up entry: Some(file), or None with the error status
ResolveFile(dist, entry) ==
    IF entry.kind = "Dir"
    THEN LET index == DistGet(dist, DirIndexPath(entry)) IN
         IF ~IsSome(index) THEN [file |-> None, status |-> 404]
         ELSE IF Unwrap(index).kind # "File" THEN [file |-> None, status |-> 500]
         ELSE [file |-> index, status |-> 200]
    ELSE [file |-> Some(entry), status |-> 200]

\* the text static_handle parses as the file's ETag
StoredTagText(file) == file.etag.value

\* the guard of the early NOT_MODIFIED return
NotModifiedGuard(if_none_match, etag) ==
    IsSome(if_none_match) /\ PreconditionPasses(Unwrap(if_none_match), etag)

\* the negotiation taking the client's most preferred encoding
NegotiatedEncodingClientChoice(accept_encoding) ==
    IF IsSome(accept_encoding)
    THEN LET encoding == Choose(Unwrap(accept_encoding)) IN
         IF encoding = Brotli THEN Brotli
         ELSE IF encoding = Zstd THEN Zstd
         ELSE Identity
    ELSE Identity

\* the encoding negotiated for the response
NegotiatedEncoding(accept_encoding) ==
    IF IsSome(accept_encoding)
    THEN LET encoding == ChooseBy(Unwrap(accept_encoding), SupportedAcceptEncoding) IN
         IF encoding = Brotli THEN Brotli
         ELSE IF encoding = Zstd THEN Zstd
         ELSE Identity
    ELSE Identity

\* the buffer of the file for an encoding static_handle serves
FileContent(file, encoding) ==
    IF encoding = Brotli THEN file.brotli_content
    ELSE IF encoding = Zstd THEN file.zstd_content
    ELSE file.content

\* static_handle(path, if_none_match, accept_encoding)
StaticHandle(dist, path, if_none_match, accept_encoding) ==
    LET content_type == ContentType(path)
        entry == DistGet(dist, path)
    IN  IF ~IsSome(entry) THEN StatusResponse(404, content_type, None)
        ELSE LET res == ResolveFile(dist, Unwrap(entry)) IN
             IF ~IsSome(res.file) THEN StatusResponse(res.status, content_type, None)
             ELSE LET file == Unwrap(res.file)
                      etag == ETagFromStr(StoredTagText(file))
                  IN  IF ~IsSome(etag) THEN StatusResponse(500, content_type, None)
                      ELSE IF NotModifiedGuard(if_none_match, Unwrap(etag))
                      THEN StatusResponse(304, content_type, None)
                      ELSE LET encoding == NegotiatedEncoding(accept_encoding) IN
                           BodyResponse(content_type, Some(EntityTagToString(Unwrap(etag))), encoding,
                                        SupportedAcceptEncoding, FileContent(file, encoding))

\* root_handle: "/" is served as index.html
RootHandlePath == <<"index.html">>

\* handle: an absent or empty path is served as index.html
HandlePath(path) == IF path # <<>> THEN path ELSE <<"index.html">>

(***************************************************************************)
(* Requests in flight                                                      *)
(***************************************************************************)
NumSlots == 1

Slots == 1..NumSlots

TagA == ETagQuoted(Blake3(ContentA)).header

TagB == ETagQuoted(Blake3(ContentB)).header

\* If-None-Match header values the clients send
IfNoneMatchValues ==
    { <<"*">>,
      <<DQ, "0", "0", DQ, ",", " ", "W", "/">> \o TagA,
      TagB }

\* Accept-Encoding header values the clients send
AcceptEncodingValues ==
    { TokGzip,
      TokBr \o <<";", "q", "=", "0", ".", "5">>,
      TokBr \o <<",", " ">> \o TokZstd \o <<";", "q", "=", "0">>,
      TokZstd \o <<";", "q", "=", "2", ",", " ">> \o TokBr \o <<";", " ", "q", "=", "0", ".", "1">> }

\* the paths the router extracts from "/{*path}"; <<>> is the empty path
RequestPaths ==
    { <<>>, <<"index.html">>, <<"logo.svg">>, <<"assets">>, <<"docs">>, <<"bad">>,
      <<"missing">>, <<"assets", "sub">> }

OptionOf(S) == {None} \cup {Some(x) : x \in S}

TypeOK ==
    /\ store = Dist
    /\ \A i \in Slots :
        /\ Len(req[i]) <= 1
        /\ Len(resp[i]) <= 1
        /\ IsSome(resp[i]) => IsSome(req[i])
        /\ IsSome(resp[i]) => Unwrap(resp[i]).status \in {200, 304, 404, 500}

Init ==
    /\ store = Dist
    /\ req = [i \in Slots |-> None]
    /\ resp = [i \in Slots |-> None]
    /\ call = None
    /\ ret = None

\* the router hands a request for "/" to root_handle
ArriveRoot(i) ==
    /\ req[i] = None
    /\ \E inm \in OptionOf(IfNoneMatchValues), ae \in OptionOf(AcceptEncodingValues) :
        req' = [req EXCEPT ![i] = Some([route |-> "root", path |-> <<>>,
                                        if_none_match |-> inm, accept_encoding |-> ae])]
    /\ UNCHANGED <<store, resp, call, ret>>

\* the router hands a request for "/{*path}" to handle
ArrivePath(i) ==
    /\ req[i] = None
    /\ \E path \in RequestPaths, inm \in OptionOf(IfNoneMatchValues),
          ae \in OptionOf(AcceptEncodingValues) :
        req' = [req EXCEPT ![i] = Some([route |-> "path", path |-> path,
                                        if_none_match |-> inm, accept_encoding |-> ae])]
    /\ UNCHANGED <<store, resp, call, ret>>

\* a handler that reads the request of the first busy worker
HandleSharedRequest(i) ==
    /\ IsSome(req[i]) /\ resp[i] = None
    /\ Unwrap(req[i]).route = "path"
    /\ LET first == CHOOSE j \in DOMAIN req : IsSome(req[j]) /\ \A k \in DOMAIN req : IsSome(req[k]) => j <= k
           r == Unwrap(req[first])
       IN  resp' = [resp EXCEPT ![i] =
                      Some(StaticHandle(store, HandlePath(r.path), r.if_none_match, r.accept_encoding))]
    /\ UNCHANGED <<store, req, call, ret>>

\* root_handle
RootHandle(i) ==
    /\ IsSome(req[i]) /\ resp[i] = None
    /\ Unwrap(req[i]).route = "root"
    /\ LET r == Unwrap(req[i]) IN
       resp' = [resp EXCEPT ![i] =
                   Some(StaticHandle(store, RootHandlePath, r.if_none_match, r.accept_encoding))]
    /\ UNCHANGED <<store, req, call, ret>>

\* handle
Handle(i) ==
    /\ IsSome(req[i]) /\ resp[i] = None
    /\ Unwrap(req[i]).route = "path"
    /\ LET r == Unwrap(req[i]) IN
       resp' = [resp EXCEPT ![i] =
                   Some(StaticHandle(store, HandlePath(r.path), r.if_none_match, r.accept_encoding))]
    /\ UNCHANGED <<store, req, call, ret>>

\* the transport has written the response; the worker takes the next request
Complete(i) ==
    /\ IsSome(resp[i])
    /\ req' = [req EXCEPT ![i] = None]
    /\ resp' = [resp EXCEPT ![i] = None]
    /\ UNCHANGED <<store, call, ret>>

Arrivals == \E i \in Slots : ArriveRoot(i) \/ ArrivePath(i)

RootHandles == \E i \in Slots : RootHandle(i)

Handles == \E i \in Slots : Handle(i)

Completions == \E i \in Slots : Complete(i)

Next == Arrivals \/ RootHandles \/ Handles \/ Completions

Spec == Init /\ [][Next]_vars

(***************************************************************************)
(* Requests handled concurrently (axum::serve on the multi-thread runtime) *)
(*                                                                         *)
(* Every connection is served by a task of its own; the tasks run in      *)
(* parallel and share only the embedded store.  A handler has no await    *)
(* point and touches the store, which is immutable static data, and its   *)
(* own arguments, so it is one step of its worker; the steps of the       *)
(* workers interleave in any order.                                       *)
(***************************************************************************)
NumWorkers == 2

Workers == 1..NumWorkers

ConcurrentPaths == { <<"logo.svg">>, <<"assets">>, <<"bad">>, <<"missing">> }

ConcurrentIfNoneMatch == { <<"*">>, TagB }

ConcurrentAcceptEncoding == { TokBr \o <<",", " ">> \o TokZstd \o <<";", "q", "=", "0">> }

InitConcurrent ==
    /\ store = Dist
    /\ req = [i \in Workers |-> None]
    /\ resp = [i \in Workers |-> None]
    /\ call = None
    /\ ret = None

\* the router hands a request to the handler of its route, on worker i
ArriveConcurrent(i) ==
    /\ req[i] = None
    /\ \E route \in {"root", "path"}, path \in ConcurrentPaths,
          inm \in OptionOf(ConcurrentIfNoneMatch), ae \in OptionOf(ConcurrentAcceptEncoding) :
        req' = [req EXCEPT ![i] = Some([route |-> route,
                                        path |-> IF route = "root" THEN <<>> ELSE path,
                                        if_none_match |-> inm, accept_encoding |-> ae])]
    /\ UNCHANGED <<store, resp, call, ret>>

NextConcurrent ==
    \E i \in Workers : ArriveConcurrent(i) \/ RootHandle(i) \/ Handle(i) \/ Complete(i)

SpecConcurrent == InitConcurrent /\ [][NextConcurrent]_vars

(***************************************************************************)
(* The negotiation functions applied to inputs drawn from bounded sets     *)
(***************************************************************************)
MaxSegs == 3

MaxItems == 2

MaxTags == 2

\* the sequences over S of length at most n
SeqsUpTo(S, n) == UNION {[1..k -> S] : k \in 0..n}

\* comma separated segments of an Accept-Encoding value, as clients write them
Segments ==
    { TokGzip \o <<";", "q", "=", "1", ".", "0">>,
      <<" ">> \o TokIdentity \o <<";", " ", "q", "=", "0", ".", "5">>,
      <<" ", "*", ";", "q", "=", "0">>,
      TokZstd \o <<";", "q", "=", "0", ".", "5">>,
      TokBr \o <<";", "q", "=", "7">>,
      TokBr \o <<";", "l", "e", "v", "e", "l", "=", "1">>,
      TokZstd }

\* the segments written one after the other with a comma between them
RECURSIVE JoinComma(_)
JoinComma(segs) ==
    IF segs = <<>> THEN <<>>
    ELSE IF Len(segs) = 1 THEN segs[1]
    ELSE segs[1] \o <<",">> \o JoinComma(Tail(segs))

\* the items servers build their preference list from
ServerItems ==
    { QualityValueNew(Identity, 500), QualityValueNew(Zstd, 900), QualityValueNew(Zstd, 500),
      QualityValueNew(Brotli, 800) }

DisplayEncodings == {Gzip, Ext(<<"*">>)}

\* entity tags of the If-None-Match lists and of the candidate representation
EntityTags == [weak : BOOLEAN, opaque : {<<"a">>, <<"b", "c">>, <<>>}]

\* a call of one of the functions: the operation and its arguments (the
\* arguments an operation does not take keep their default)
NoCall ==
    [op |-> "none", segs |-> <<>>, items |-> <<>>, any |-> FALSE, tags |-> <<>>,
     etag |-> [weak |-> FALSE, opaque |-> <<>>], encoding |-> Identity, num |-> 0]

\* the value a call returned, in the field of its type
NoResult ==
    [entries |-> <<>>, encoding |-> Identity, text |-> <<>>, passes |-> FALSE,
     ok |-> FALSE, decoded |-> <<>>, quality |-> 0]

\* AcceptEncoding::iter on the header made of the segments segs
CallIter ==
    /\ call = None
    /\ \E segs \in SeqsUpTo(Segments, MaxSegs) :
        /\ call' = Some([NoCall EXCEPT !.op = "iter", !.segs = segs])
        /\ ret' = Some([NoResult EXCEPT !.entries = AcceptEncodingIter(JoinComma(segs))])
        /\ UNCHANGED <<store, req, resp>>

\* AcceptEncoding::choose on the header made of the segments segs
CallChoose ==
    /\ call = None
    /\ \E segs \in SeqsUpTo(Segments, MaxSegs) :
        /\ call' = Some([NoCall EXCEPT !.op = "choose", !.segs = segs])
        /\ ret' = Some([NoResult EXCEPT !.encoding = Choose(JoinComma(segs))])
        /\ UNCHANGED <<store, req, resp>>

\* client.choose_by(&server), the server list collected from items (both lists
\* of at most MaxItems entries)
CallChooseBy ==
    /\ call = None
    /\ \E segs \in SeqsUpTo(Segments, MaxItems), items \in SeqsUpTo(ServerItems, MaxItems) :
        /\ call' = Some([NoCall EXCEPT !.op = "choose_by", !.segs = segs, !.items = items])
        /\ ret' = Some([NoResult EXCEPT
                          !.encoding = ChooseBy(JoinComma(segs), AcceptEncodingFromIter(items))])
        /\ UNCHANGED <<store, req, resp>>

\* QualityValue::new(encoding, quality).to_string()
CallDisplay ==
    /\ call = None
    /\ \E encoding \in DisplayEncodings, quality \in 0..QualityMax :
        /\ call' = Some([NoCall EXCEPT !.op = "display",
                                       !.items = <<QualityValueNew(encoding, quality)>>])
        /\ ret' = Some([NoResult EXCEPT
                          !.text = QualityValueToString(QualityValueNew(encoding, quality))])
        /\ UNCHANGED <<store, req, resp>>

\* items.into_iter().collect::<AcceptEncoding>(), encoded as the header value
CallFromIter ==
    /\ call = None
    /\ \E items \in SeqsUpTo(ServerItems, MaxItems) :
        /\ call' = Some([NoCall EXCEPT !.op = "from_iter", !.items = items])
        /\ ret' = Some([NoResult EXCEPT !.text = AcceptEncodingFromIter(items)])
        /\ UNCHANGED <<store, req, resp>>

\* IfNoneMatch::precondition_passes(etag) for `*` (any) or the listed tags
CallPreconditionPasses ==
    /\ call = None
    /\ \E any \in BOOLEAN, tags \in SeqsUpTo(EntityTags, MaxTags), etag \in EntityTags :
        /\ any => tags = <<>>
        /\ call' = Some([NoCall EXCEPT !.op = "precondition_passes", !.any = any,
                                       !.tags = tags, !.etag = etag])
        /\ ret' = Some([NoResult EXCEPT !.passes =
                          PreconditionPasses(
                              IF any THEN <<"*">>
                              ELSE FlatCsvFromIter([i \in 1..Len(tags) |->
                                                       EntityTagToString(tags[i])]),
                              etag)])
        /\ UNCHANGED <<store, req, resp>>

\* the texts parsed as an Encoding: the eight tokens and others
EncodingTexts ==
    { TokChunked, TokBr, TokGzip, TokDeflate, TokCompress, TokIdentity, TokTrailers, TokZstd,
      <<"*">>, <<"B", "R">>, <<>>, <<"x", "-", "g", "z", "i", "p">>, TokGzip \o <<" ">> }

\* the Encoding values formatted as a Content-Encoding header: the parsed texts
\* and an Ext that holds a known token
EncodingValues == {Unwrap(EncodingFromStr(s)) : s \in EncodingTexts} \cup {Ext(TokGzip)}

\* s.parse::<Encoding>() and the to_string() of the parsed value
CallEncodingFromStr ==
    /\ call = None
    /\ \E s \in EncodingTexts :
        /\ call' = Some([NoCall EXCEPT !.op = "from_str", !.segs = <<s>>])
        /\ ret' = LET parsed == EncodingFromStr(s) IN
                  IF IsSome(parsed)
                  THEN Some([NoResult EXCEPT !.ok = TRUE, !.encoding = Unwrap(parsed),
                                             !.text = EncodingToString(Unwrap(parsed))])
                  ELSE Some(NoResult)
        /\ UNCHANGED <<store, req, resp>>

\* typed_insert(ContentEncoding::from(encoding)) into a header map, then
\* typed_get::<ContentEncoding>() from that map
CallContentEncoding ==
    /\ call = None
    /\ \E encoding \in EncodingValues :
        /\ call' = Some([NoCall EXCEPT !.op = "content_encoding", !.encoding = encoding])
        /\ ret' = LET values == ContentEncodingEncode(ContentEncodingFromEncoding(encoding))
                      decoded == ContentEncodingDecode(values)
                  IN  IF IsSome(decoded)
                      THEN Some([NoResult EXCEPT !.ok = TRUE, !.text = Head(values),
                                                 !.decoded = Unwrap(decoded)])
                      ELSE Some([NoResult EXCEPT !.text = Head(values)])
        /\ UNCHANGED <<store, req, resp>>

\* the texts written after `q=`
QParts ==
    { <<"0">>, <<"1">>, <<"0", ".", "5">>, <<"0", ".", "2", "5", "1">>, <<".", "5", "0", "6">>,
      <<"0", ".", "9", "9", "9">>, <<"1", ".", "0", "0", "0">>, <<"1", ".", "0", "0", "0", "0">>,
      <<"0", ".", "0", "0", "0", "1">>, <<"1", ".", "1">>, <<"2">>, <<"-", "1">>, <<"-", "0">>,
      <<>>, <<"x">> }

\* the texts written after the last ';' that are no quality parameter
TrailingParts ==
    { <<>>, <<" ">>, <<"q">>, <<"x">>, <<"q", "x">>, <<"l", "e", "v", "e", "l", "=", "1">>,
      <<"q", "=", "0", ".", "5", ";", "x", "=", "1">> }

\* the texts parsed as a QualityValue<Encoding>
QualityTexts ==
    {TokGzip \o <<";", "q", "=">> \o q : q \in QParts}
        \cup {TokBr \o <<";", " ", "Q", "=">> \o q : q \in QParts}
        \cup {<<"a", ";", "b", ";", "q", "=">> \o q : q \in QParts}
        \cup {TokGzip \o <<";">> \o t : t \in TrailingParts}
        \cup {TokGzip, <<>>}

\* the u16 values converted by into_quality
U16Values == {0, 1, 800, 1000, 1001, 65535}

\* s.parse::<QualityValue<Encoding>>()
CallQualityValueFromStr ==
    /\ call = None
    /\ \E s \in QualityTexts :
        /\ call' = Some([NoCall EXCEPT !.op = "qv_from_str", !.segs = <<s>>])
        /\ ret' = LET parsed == QualityValueFromStr(s) IN
                  Some([NoResult EXCEPT !.ok = IsSome(parsed), !.entries = parsed])
        /\ UNCHANGED <<store, req, resp>>

\* x.into_quality() for a u16 x
CallU16IntoQuality ==
    /\ call = None
    /\ \E x \in U16Values :
        /\ call' = Some([NoCall EXCEPT !.op = "u16_into_quality", !.num = x])
        /\ ret' = LET quality == U16IntoQuality(x) IN
                  IF IsSome(quality)
                  THEN Some([NoResult EXCEPT !.ok = TRUE, !.quality = Unwrap(quality)])
                  ELSE Some(NoResult)
        /\ UNCHANGED <<store, req, resp>>

\* f.into_quality() for the f32 f written as the decimal literal q
CallF32IntoQuality ==
    /\ call = None
    /\ \E q \in {t \in QParts : IsSome(ParseDecimal(t))} :
        /\ call' = Some([NoCall EXCEPT !.op = "f32_into_quality", !.segs = <<q>>])
        /\ ret' = LET quality == F32IntoQuality(Unwrap(ParseDecimal(q))) IN
                  IF IsSome(quality)
                  THEN Some([NoResult EXCEPT !.ok = TRUE, !.quality = Unwrap(quality)])
                  ELSE Some(NoResult)
        /\ UNCHANGED <<store, req, resp>>

\* the caller takes the result
Return ==
    /\ call # None
    /\ call' = None
    /\ ret' = None
    /\ UNCHANGED <<store, req, resp>>

NextFn ==
    \/ CallIter
    \/ CallChoose
    \/ CallChooseBy
    \/ CallDisplay
    \/ CallFromIter
    \/ CallPreconditionPasses
    \/ CallEncodingFromStr
    \/ CallContentEncoding
    \/ CallQualityValueFromStr
    \/ CallU16IntoQuality
    \/ CallF32IntoQuality
    \/ Return

SpecFn == Init /\ [][NextFn]_vars

(***************************************************************************)
(* Properties of the response composer                                     *)
(***************************************************************************)
Responded(i) == IsSome(req[i]) /\ IsSome(resp[i])

\* the path static_handle is called with for the request in slot i
PathOf(i) ==
    LET r == Unwrap(req[i]) IN
    IF r.route = "root" \/ r.path = <<>> THEN <<"index.html">> ELSE r.path

\* the request path names a file, or a directory with a file index.html in it
ResolvesToFile(i) ==
    LET p == PathOf(i) IN
    /\ p \in DOMAIN store
    /\ \/ store[p].kind = "File"
       \/ /\ p \o <<"index.html">> \in DOMAIN store
          /\ store[p \o <<"index.html">>].kind = "File"

ResolvedFile(i) ==
    LET p == PathOf(i) IN
    IF store[p].kind = "File" THEN store[p] ELSE store[p \o <<"index.html">>]

TagParses(file) == IsSome(ETagFromStr(file.etag.value))

StoreBuilt(file) == file.etag = ETagHeaderValueCreate(Blake3(file.content))

\* C2: a request with no If-None-Match and no Accept-Encoding for a file whose
\* tag was built by ETagHeaderValue::create is served: 200, identity, the raw
\* bytes and a strong ETag, never 500.
C2_StoreBuiltFileIsServed ==
    \A i \in Slots :
        (/\ Responded(i) /\ ResolvesToFile(i) /\ StoreBuilt(ResolvedFile(i))
         /\ Unwrap(req[i]).if_none_match = None
         /\ Unwrap(req[i]).accept_encoding = None) =>
            LET r == Unwrap(resp[i]) IN
            /\ r.status = 200
            /\ r.content_encoding = Some(TokIdentity)
            /\ r.body = ResolvedFile(i).content
            /\ IsSome(r.etag) /\ Head(Unwrap(r.etag)) = DQ

Listed(accept_encoding) ==
    LET qvs == AcceptEncodingIter(accept_encoding) IN
    {qvs[k].value : k \in 1..Len(qvs)}

Called(op) == IsSome(call) /\ Unwrap(call).op = op

Args == Unwrap(call)

Result == Unwrap(ret)

\* C5: precondition_passes is false for `*` and for a list holding a tag with
\* the candidate's opaque value, whatever the weak flags, and true for every
\* list holding no such tag.
C5_PreconditionPasses ==
    Called("precondition_passes") =>
        LET matched == Args.any \/ \E k \in 1..Len(Args.tags) :
                                         Args.tags[k].opaque = Args.etag.opaque
        IN  Result.passes = ~matched

C5_Witness ==
    /\ Called("precondition_passes")
    /\ ~Args.any
    /\ Len(Args.tags) = 2
    /\ Args.tags[1].opaque # Args.etag.opaque
    /\ Args.tags[2].opaque = Args.etag.opaque
    /\ Args.tags[2].weak /\ ~Args.etag.weak
    /\ Result.passes = FALSE

\* entry i comes before entry j once the list is stably sorted by quality descending
Precedes(list, i, j) ==
    list[i].quality > list[j].quality \/ (list[i].quality = list[j].quality /\ i < j)

\* the member of the index set S that comes first in that order
FirstOf(list, S) == CHOOSE i \in S : \A j \in S \ {i} : Precedes(list, i, j)

\* C6: choose_by returns the first encoding of the server list, in stable
\* quality-descending order, that equals some entry of the client list, and
\* Identity when no server entry occurs in the client list.
C6_ChooseBy ==
    Called("choose_by") =>
        LET server == AcceptEncodingIter(AcceptEncodingFromIter(Args.items))
            client == Listed(JoinComma(Args.segs))
            hits == {i \in 1..Len(server) : server[i].value \in client}
        IN  IF hits = {} THEN Result.encoding = Identity
            ELSE Result.encoding = server[FirstOf(server, hits)].value

C6_Witness ==
    /\ Called("choose_by")
    /\ Args.items = <<QualityValueNew(Identity, 500), QualityValueNew(Zstd, 500)>>
    /\ {Identity, Zstd} \subseteq Listed(JoinComma(Args.segs))
    /\ Result.encoding = Identity

\* C8: choose returns the encoding of the highest-quality entry of the parsed
\* list, the leftmost one among equals, and Identity for a list with no
\* parseable entry.
C8_Choose ==
    Called("choose") =>
        LET entries == AcceptEncodingIter(JoinComma(Args.segs)) IN
        IF entries = <<>> THEN Result.encoding = Identity
        ELSE \E i \in 1..Len(entries) :
                /\ Result.encoding = entries[i].value
                /\ \A j \in 1..Len(entries) : entries[j].quality <= entries[i].quality
                /\ \A j \in 1..(i - 1) : entries[j].quality < entries[i].quality

C8_Witness ==
    /\ Called("choose")
    /\ Len(Args.segs) = 3
    /\ LET entries == AcceptEncodingIter(JoinComma(Args.segs)) IN
       /\ Len(entries) = 3
       /\ entries[1].quality < entries[2].quality
       /\ entries[2].quality = entries[3].quality
       /\ entries[2].value # entries[3].value
       /\ Result.encoding = entries[2].value

\* the indices of the segments that parse as a QualityValue<Encoding>
Parseable(segs) == {i \in 1..Len(segs) : IsSome(QualityValueFromStr(Trim(segs[i])))}

\* the k-th smallest member of the index set S
RECURSIVE Nth(_, _)
Nth(S, k) ==
    LET m == CHOOSE i \in S : \A j \in S : i <= j IN
    IF k = 1 THEN m ELSE Nth(S \ {m}, k - 1)

StarSegment == <<" ", "*", ";", "q", "=", "0">>

\* (the empty header value is one empty segment)
\* C9: iterating a parsed Accept-Encoding yields, in header order, exactly one
\* pair per comma separated segment that parses; failing segments are dropped
\* without affecting the others, and unknown tokens are kept as Ext entries.
C9_Iter ==
    Called("iter") =>
        LET segs == IF Args.segs = <<>> THEN << <<>> >> ELSE Args.segs
            ok == Parseable(segs)
        IN  /\ Len(Result.entries) = Cardinality(ok)
            /\ \A k \in 1..Cardinality(ok) :
                    LET seg == segs[Nth(ok, k)] IN
                    /\ Result.entries[k] = Unwrap(QualityValueFromStr(Trim(seg)))
                    /\ seg = StarSegment => Result.entries[k] = QualityValueNew(Ext(<<"*">>), 0)
            /\ segs = << TokGzip \o <<";", "q", "=", "1", ".", "0">>,
                         <<" ">> \o TokIdentity \o <<";", " ", "q", "=", "0", ".", "5">>,
                         <<" ", "*", ";", "q", "=", "0">> >>
                 => Result.entries = << QualityValueNew(Gzip, 1000), QualityValueNew(Identity, 500),
                                QualityValueNew(Ext(<<"*">>), 0) >>

C9_Witness ==
    /\ Called("iter")
    /\ Args.segs = << TokGzip \o <<";", "q", "=", "1", ".", "0">>,
                      TokBr \o <<";", "q", "=", "7">>,
                      <<" ", "*", ";", "q", "=", "0">> >>
    /\ Result.entries = <<QualityValueNew(Gzip, 1000), QualityValueNew(Ext(<<"*">>), 0)>>

\* the number a sequence of decimal digits denotes
RECURSIVE Denotes(_)
Denotes(ds) ==
    IF ds = <<>> THEN 0 ELSE Denotes(SubSeq(ds, 1, Len(ds) - 1)) * 10 + DigitVal(ds[Len(ds)])

\* ds is the three-digit zero-padded form of q with its trailing zeros removed
IsTrimmedThousandths(ds, q) ==
    /\ Len(ds) \in 1..3
    /\ \A k \in 1..Len(ds) : IsDigit(ds[k])
    /\ ds[Len(ds)] # "0"
    /\ Denotes(ds) * (10 ^ (3 - Len(ds))) = q

\* the position in the joined text where the k-th text starts, less one
RECURSIVE OffsetOf(_, _)
OffsetOf(texts, k) ==
    IF k = 1 THEN 0 ELSE OffsetOf(texts, k - 1) + Len(texts[k - 1]) + 2

\* C10: formatting a QualityValue appends nothing for quality 1000, `; q=0` for
\* quality 0 and `; q=0.` with the trimmed three-digit quality otherwise; a list
\* built from items is rendered as those texts joined by `, `.
C10_Display ==
    /\ Called("display") =>
        LET qv == Args.items[1]
            tok == EncodingToString(qv.value)
            suffix == SubSeq(Result.text, Len(tok) + 1, Len(Result.text))
        IN  /\ SubSeq(Result.text, 1, Len(tok)) = tok
            /\ qv.quality = 1000 => suffix = <<>>
            /\ qv.quality = 0 => suffix = <<";", " ", "q", "=", "0">>
            /\ qv.quality \in 1..999 =>
                 /\ SubSeq(suffix, 1, 6) = <<";", " ", "q", "=", "0", ".">>
                 /\ IsTrimmedThousandths(SubSeq(suffix, 7, Len(suffix)), qv.quality)
            /\ qv.quality = 500 => suffix = <<";", " ", "q", "=", "0", ".", "5">>
            /\ qv.quality = 532 => suffix = <<";", " ", "q", "=", "0", ".", "5", "3", "2">>
            /\ qv.quality = 50 => suffix = <<";", " ", "q", "=", "0", ".", "0", "5">>
    /\ Called("from_iter") =>
        LET items == Args.items
            texts == [k \in 1..Len(items) |-> QualityValueToString(items[k])]
            n == Len(items)
        IN  /\ Len(Result.text) = IF n = 0 THEN 0 ELSE OffsetOf(texts, n) + Len(texts[n])
            /\ \A k \in 1..n :
                 /\ SubSeq(Result.text, OffsetOf(texts, k) + 1, OffsetOf(texts, k) + Len(texts[k]))
                       = texts[k]
                 /\ k < n => SubSeq(Result.text, OffsetOf(texts, k) + Len(texts[k]) + 1,
                                    OffsetOf(texts, k) + Len(texts[k]) + 2) = <<",", " ">>

C10_Witness ==
    /\ Called("display")
    /\ Args.items[1] = QualityValueNew(Gzip, 50)
    /\ Result.text = TokGzip \o <<";", " ", "q", "=", "0", ".", "0", "5">>

\* the known tokens with their variants
KnownTokens ==
    { <<TokChunked, Chunked>>, <<TokBr, Brotli>>, <<TokGzip, Gzip>>, <<TokDeflate, Deflate>>,
      <<TokCompress, Compress>>, <<TokIdentity, Identity>>, <<TokTrailers, Trailers>>,
      <<TokZstd, Zstd>> }

\* C11: parsing a text as an Encoding never fails; each of the eight tokens
\* gives its variant, whose format is the token again; every other text s gives
\* Ext(s); the format of the parsed value is the parsed text.  The
\* Content-Encoding header of an encoding holds its token, and decoding that
\* header gives a value equal to the ContentEncoding made from the encoding.
C11_EncodingRoundTrip ==
    /\ Called("from_str") =>
        LET s == Args.segs[1] IN
        /\ Result.ok
        /\ \A kt \in KnownTokens :
               /\ s = kt[1] => Result.encoding = kt[2]
               /\ Result.encoding = kt[2] => s = kt[1]
        /\ (\A kt \in KnownTokens : s # kt[1]) => Result.encoding = Ext(s)
        /\ Result.text = s
    /\ Called("content_encoding") =>
        /\ Result.ok
        /\ \A kt \in KnownTokens : Args.encoding = kt[2] => Result.text = kt[1]
        /\ Args.encoding.variant = "Ext" => Result.text = Args.encoding.ext
        /\ Result.decoded = ContentEncodingFromEncoding(Args.encoding)

C11_Witness ==
    /\ Called("from_str")
    /\ Args.segs[1] = TokDeflate
    /\ Result.ok
    /\ Result.encoding = Deflate
    /\ Result.text = TokDeflate

(***************************************************************************)
(* Properties of quality parsing                                           *)
(***************************************************************************)
\* the text after the last ';' of s, trimmed; <<>> when s has no ';'
TrailingSegment(s) ==
    LET i == LastIndexOf(s, ";") IN
    IF i = 0 THEN <<>> ELSE Trim(SubSeq(s, i + 1, Len(s)))

HasTrailingSegment(s) == LastIndexOf(s, ";") # 0

\* the trailing segment is a quality parameter: it starts with q= or Q=
LooksLikeQuality(s) ==
    /\ HasTrailingSegment(s)
    /\ Len(TrailingSegment(s)) >= 2
    /\ SubSeq(TrailingSegment(s), 1, 2) \in {<<"q", "=">>, <<"Q", "=">>}

\* the text of the quality, after `q=`
QualityText(s) == SubSeq(TrailingSegment(s), 3, Len(TrailingSegment(s)))

\* the decimal text t denotes a number in [0, 1]
DenotesUnit(t) ==
    /\ IsSome(ParseDecimal(t))
    /\ LET d == Unwrap(ParseDecimal(t)) IN
       d.num <= d.den /\ (d.neg => d.num = 0)

\* floor(q * 1000) for the number q the decimal text t denotes
FloorThousandths(t) ==
    LET d == Unwrap(ParseDecimal(t)) IN (d.num * 1000) \div d.den

\* C13: a token with a quality parameter parses exactly when the quality text
\* has at most 5 characters and denotes a number q in [0, 1]; the stored
\* quality is then floor(q * 1000); every quality from parsing or from
\* into_quality is in 0..1000, and into_quality fails for a u16 above 1000 and
\* for a float outside [0, 1].
C13_QualityParse ==
    /\ (Called("qv_from_str") /\ LooksLikeQuality(Args.segs[1])) =>
        LET t == QualityText(Args.segs[1]) IN
        /\ Result.ok <=> (Len(t) <= 5 /\ DenotesUnit(t))
        /\ Result.ok => Result.entries[1].quality = FloorThousandths(t)
    /\ (Called("qv_from_str") /\ Result.ok) => Result.entries[1].quality \in 0..1000
    /\ Called("u16_into_quality") =>
        /\ Result.ok <=> Args.num <= 1000
        /\ Result.ok => Result.quality = Args.num
    /\ Called("f32_into_quality") =>
        /\ Result.ok <=> DenotesUnit(Args.segs[1])
        /\ Result.ok => Result.quality \in 0..1000

\* C14: a token whose trailing segment does not start with q= or Q= (an empty
\* or one-character segment included) parses: the quality is 1000 and the
\* value is the whole text parsed as an Encoding.
C14_TrailingSegmentIgnored ==
    (/\ Called("qv_from_str")
     /\ HasTrailingSegment(Args.segs[1])
     /\ ~LooksLikeQuality(Args.segs[1])) =>
        /\ Result.ok
        /\ Result.entries = <<QualityValueNew(Unwrap(EncodingFromStr(Args.segs[1])), 1000)>>

(***************************************************************************)
(* Directory index                                                         *)
(***************************************************************************)
\* C12: a request whose path P is a directory with a file at P/index.html is
\* answered from that file: status, ETag and body are those of a request for
\* P/index.html with the same headers.
C12_DirIndexIsDirectChild ==
    \A i \in Slots :
        LET p == PathOf(i)
            ix == p \o <<"index.html">>
        IN  (/\ Responded(i)
             /\ p \in DOMAIN store /\ store[p].kind = "Dir"
             /\ ix \in DOMAIN store /\ store[ix].kind = "File") =>
                LET r == Unwrap(resp[i])
                    direct == StaticHandle(store, ix, Unwrap(req[i]).if_none_match,
                                           Unwrap(req[i]).accept_encoding)
                IN  /\ r.status = direct.status
                    /\ r.etag = direct.etag
                    /\ r.body = direct.body

(***************************************************************************)
(* Encoding headers of the response                                        *)
(***************************************************************************)
\* the server's advertisement as it is written in the response
Advertisement == TokZstd \o <<",", " ">> \o TokBr \o <<";", " ", "q", "=", "0", ".", "8">>

HandledAlone(r) ==
    StaticHandle(Dist, IF r.route = "root" \/ r.path = <<>> THEN <<"index.html">> ELSE r.path,
                 r.if_none_match, r.accept_encoding)

====
